---------------------------- MODULE Spec2Model ----------------------------
(***************************************************************************)
(* A model of the ZIP reader in src/src/main.rs: main calls                  *)
(* read_end_central_dir, read_central_directory and extract_file in turn    *)
(* on one archive file.  The file is the input; it is drawn in Init from a  *)
(* bounded family of byte sources (archives assembled byte by byte in the   *)
(* layouts the source documents, and short raw byte strings).               *)
(***************************************************************************)
EXTENDS Integers, Sequences, FiniteSets, TLC

VARIABLES
    archive,             \* the description of the input file (never changes)
    pc,                  \* main's position: the line of its next call
    res,                 \* main.res: what read_end_central_dir returned
    signature_position,  \* read_end_central_dir's local of that name
    entries,             \* what read_central_directory returned
    handed,              \* the entries main passed to extract_file, in order
    extracted,           \* what extract_file returned (main drops it)
    payload_pos,         \* extract_file's cursor when it reads the payload
    sink                 \* the files written: a sequence of [path, bytes]

vars == <<archive, pc, res, signature_position, entries, handed, extracted,
          payload_pos, sink>>

---------------------------------------------------------------------------
(* Bounds of the input family. *)
MaxEntries == 2
MaxRawLen == 5

(* Program constants. *)
LOCAL_FILE_HEADER_SIGNATURE == 67324752
CENTRAL_DIR_SIGNATURE == 33639248
END_CENTRAL_DIR_SIGNATURE == 101010256
SEARCH_WINDOW == 1024
EOCD_RECORD_END == 22
LOCAL_HEADER_LEN == 30

---------------------------------------------------------------------------
(* Fixed-width little-endian integers. *)

Min(a, b) == IF a <= b THEN a ELSE b

RECURSIVE Pow256(_)
Pow256(k) == IF k = 0 THEN 1 ELSE 256 * Pow256(k - 1)

\* i32::to_le_bytes / the writer's side of u16, u32 fields: n bytes of v.
to_le_bytes(v, n) == [k \in 1..n |-> (v \div Pow256(k - 1)) % 256]

\* u16::from_le_bytes, u32::from_le_bytes.
RECURSIVE from_le_bytes(_)
from_le_bytes(bs) ==
    IF bs = <<>> THEN 0 ELSE Head(bs) + 256 * from_le_bytes(Tail(bs))

Zeros(n) == [k \in 1..n |-> 0]

---------------------------------------------------------------------------
(* The byte source.  A file is its length and its content as a sequence of  *)
(* pieces, each a run of bytes or a hole of n zero bytes, which keeps a     *)
(* file with a 65535-byte extra field small.  Positions count from 0.       *)

EmptyFile == [len |-> 0, pieces |-> <<>>]

PieceLen(pc0) == pc0.hole + Len(pc0.bytes)

AppendBytes(f, bs) ==
    IF bs = <<>> THEN f
    ELSE [len |-> f.len + Len(bs),
          pieces |-> Append(f.pieces, [hole |-> 0, bytes |-> bs])]

AppendHole(f, n) ==
    IF n = 0 THEN f
    ELSE [len |-> f.len + n,
          pieces |-> Append(f.pieces, [hole |-> n, bytes |-> <<>>])]

\* The n bytes at position pos of the pieces (all of them there).
RECURSIVE Slice(_, _, _)
Slice(pieces, pos, n) ==
    IF n = 0 THEN <<>>
    ELSE LET p0 == Head(pieces)
             l  == PieceLen(p0)
             take == Min(n, l - pos)
         IN  IF pos >= l THEN Slice(Tail(pieces), pos - l, n)
             ELSE (IF p0.hole > 0 THEN Zeros(take)
                   ELSE SubSeq(p0.bytes, pos + 1, pos + take))
                  \o Slice(Tail(pieces), 0, n - take)

\* The first l bytes of the pieces, as pieces.
RECURSIVE TakePieces(_, _)
TakePieces(pieces, l) ==
    IF l = 0 THEN <<>>
    ELSE LET p0 == Head(pieces)
         IN  IF PieceLen(p0) <= l
             THEN <<p0>> \o TakePieces(Tail(pieces), l - PieceLen(p0))
             ELSE IF p0.hole > 0 THEN << [hole |-> l, bytes |-> <<>>] >>
             ELSE << [hole |-> 0, bytes |-> SubSeq(p0.bytes, 1, l)] >>

\* The file without its last n bytes.
Truncate(f, n) ==
    LET l == IF n >= f.len THEN 0 ELSE f.len - n
    IN  [len |-> l, pieces |-> TakePieces(f.pieces, l)]

\* Read::read_exact at cursor pos: n bytes, or UnexpectedEof when fewer remain.
ReadExact(f, pos, n) ==
    IF n = 0 THEN [ok |-> TRUE, bytes |-> <<>>]
    ELSE IF pos + n > f.len THEN [ok |-> FALSE, bytes |-> <<>>]
    ELSE [ok |-> TRUE, bytes |-> Slice(f.pieces, pos, n)]

---------------------------------------------------------------------------
(* String::from_utf8: whether the bytes are well-formed UTF-8. *)

IsCont(b) == b >= 128 /\ b <= 191

RECURSIVE Utf8Valid(_)
Utf8Valid(bs) ==
    IF bs = <<>> THEN TRUE
    ELSE LET b == bs[1]
             n == Len(bs)
             Rest(k) == SubSeq(bs, k + 1, n)
         IN  IF b <= 127 THEN Utf8Valid(Rest(1))
             ELSE IF b >= 194 /\ b <= 223
                  THEN n >= 2 /\ IsCont(bs[2]) /\ Utf8Valid(Rest(2))
             ELSE IF b >= 224 /\ b <= 239
                  THEN /\ n >= 3
                       /\ IsCont(bs[2]) /\ IsCont(bs[3])
                       /\ (b = 224 => bs[2] >= 160)
                       /\ (b = 237 => bs[2] <= 159)
                       /\ Utf8Valid(Rest(3))
             ELSE IF b >= 240 /\ b <= 244
                  THEN /\ n >= 4
                       /\ IsCont(bs[2]) /\ IsCont(bs[3]) /\ IsCont(bs[4])
                       /\ (b = 240 => bs[2] >= 144)
                       /\ (b = 244 => bs[2] <= 143)
                       /\ Utf8Valid(Rest(4))
             ELSE FALSE

---------------------------------------------------------------------------
(* flate2's DeflateDecoder::read_to_end over the payload.  The inflate      *)
(* algorithm is a library; of raw deflate the model decodes one final       *)
(* stored block (01, LEN, NLEN = ~LEN, LEN literal bytes) and takes every   *)
(* other stream of the input family (they are empty, cut short, or open     *)
(* with the reserved block type 3) as malformed.                            *)
Inflate(data) ==
    IF Len(data) >= 5 /\ data[1] = 1
       /\ from_le_bytes(SubSeq(data, 2, 3)) + from_le_bytes(SubSeq(data, 4, 5)) = 65535
       /\ Len(data) >= 5 + from_le_bytes(SubSeq(data, 2, 3))
    THEN [ok |-> TRUE,
          bytes |-> SubSeq(data, 6, 5 + from_le_bytes(SubSeq(data, 2, 3)))]
    ELSE [ok |-> FALSE, bytes |-> <<>>]

---------------------------------------------------------------------------
(* Results: io::Result<Option<T>> or a panic.  tag is "Some", "None",       *)
(* "Err" or "Panic"; val is the payload of Some and the type's empty value  *)
(* otherwise; err names the io::ErrorKind of Err.                           *)

Ok_Some(v)    == [tag |-> "Some",  val |-> v, err |-> ""]
Ok_None(zero) == [tag |-> "None",  val |-> zero, err |-> ""]
Err(kind, zero) == [tag |-> "Err", val |-> zero, err |-> kind]
Panic(zero)   == [tag |-> "Panic", val |-> zero, err |-> ""]

---------------------------------------------------------------------------
(* read_end_central_dir *)

\* A variant that forgets the min: the window is always 1024 bytes.
SearchSizeFixed(file_size) == SEARCH_WINDOW

\* let search_size = min(1024, file_size);
SearchSize(file_size) == Min(SEARCH_WINDOW, file_size)

\* (0..buf.len().saturating_sub(4)): the candidate positions of the scan.
ScanRange(len) == 0 .. ((IF len >= 4 THEN len - 4 ELSE 0) - 1)

\* buf[i..i + 4] == signature_bytes
MatchAt(buf, i, signature_bytes) == SubSeq(buf, i + 1, i + 4) = signature_bytes

\* A variant that scans upward (no .rev()): the lowest match wins.
ScanSignatureForward(buf) ==
    LET signature_bytes == to_le_bytes(END_CENTRAL_DIR_SIGNATURE, 4)
        hits == {i \in ScanRange(Len(buf)) : MatchAt(buf, i, signature_bytes)}
    IN  IF hits = {} THEN -1
        ELSE CHOOSE i \in hits : \A j \in hits : i <= j

\* The loop: from the highest candidate down, break at the first match;
\* -1 when no candidate matches.
ScanSignature(buf) ==
    LET signature_bytes == to_le_bytes(END_CENTRAL_DIR_SIGNATURE, 4)
        hits == {i \in ScanRange(Len(buf)) : MatchAt(buf, i, signature_bytes)}
    IN  IF hits = {} THEN -1
        ELSE CHOOSE i \in hits : \A j \in hits : j <= i

\* The whole function: [tag, val (dir_offset), err, signature_position].
read_end_central_dir(f) ==
    LET file_size   == f.len
        search_size == SearchSize(file_size)
    IN  IF search_size > file_size
        THEN \* seek(SeekFrom::End(-search_size)) before the start of the file
             [pos |-> -1] @@ Err("InvalidInput", 0)
        ELSE
        LET buf == ReadExact(f, file_size - search_size, search_size).bytes
            sp  == ScanSignature(buf)
        IN  IF sp = -1 THEN [pos |-> sp] @@ Ok_None(0)
            ELSE IF sp + EOCD_RECORD_END > Len(buf)
                 THEN \* &buf[pos + 4..pos + 22] out of range
                      [pos |-> sp] @@ Panic(0)
            ELSE LET record_bytes == SubSeq(buf, sp + 5, sp + EOCD_RECORD_END)
                     dir_offset   == from_le_bytes(SubSeq(record_bytes, 13, 16))
                 IN  [pos |-> sp] @@ Ok_Some(dir_offset)

---------------------------------------------------------------------------
(* read_central_directory *)

ZipFileEntry(filename, compressed_size, uncompressed_size, compression_method, file_offset) ==
    [filename |-> filename, compressed_size |-> compressed_size,
     uncompressed_size |-> uncompressed_size,
     compression_method |-> compression_method, file_offset |-> file_offset]

\* offset is main's res after unwrap: an Option<u64> as [tag, val].
read_central_directory(f, offset) ==
    IF offset.tag = "None" THEN Panic(<<>>)      \* offset.unwrap()
    ELSE
    LET o    == offset.val
        sig  == ReadExact(f, o, 4)
        cm   == ReadExact(f, o + 10, 2)     \* after seek(Current(6))
        cs   == ReadExact(f, o + 20, 8)     \* after seek(Current(8))
        lens == ReadExact(f, o + 28, 6)
        off  == ReadExact(f, o + 42, 4)     \* after seek(Current(8))
        filename_length == from_le_bytes(SubSeq(lens.bytes, 1, 2))
        name == ReadExact(f, o + 46, filename_length)
    IN  IF ~sig.ok THEN Err("UnexpectedEof", <<>>)
        ELSE IF sig.bytes # to_le_bytes(CENTRAL_DIR_SIGNATURE, 4)
             THEN Ok_None(<<>>)
        ELSE IF ~cm.ok \/ ~cs.ok \/ ~lens.ok \/ ~off.ok \/ ~name.ok
             THEN Err("UnexpectedEof", <<>>)
        ELSE IF ~Utf8Valid(name.bytes) THEN Err("InvalidData", <<>>)
        ELSE Ok_Some(<< ZipFileEntry(
                 name.bytes,
                 from_le_bytes(SubSeq(cs.bytes, 1, 4)),
                 from_le_bytes(SubSeq(cs.bytes, 5, 8)),
                 from_le_bytes(cm.bytes),
                 from_le_bytes(off.bytes)) >>)

---------------------------------------------------------------------------
(* extract_file *)

\* Path::new("/home/abc/Desktop/vscode2.txt"), as bytes.
OutputPath ==
    << 47, 104, 111, 109, 101, 47, 97, 98, 99, 47, 68, 101, 115, 107, 116,
       111, 112, 47, 118, 115, 99, 111, 100, 101, 50, 46, 116, 120, 116 >>

\* local_name_length + local_extra_length in u16: with overflow checks (a
\* debug build) the sum panics above 65535, without them it wraps.
SkipLength(local_name_length, local_extra_length, overflow_checks) ==
    LET sum == local_name_length + local_extra_length
    IN  IF sum <= 65535 THEN [panic |-> FALSE, n |-> sum]
        ELSE IF overflow_checks THEN [panic |-> TRUE, n |-> 0]
        ELSE [panic |-> FALSE, n |-> sum % 65536]

\* The whole function: [tag, val (the bytes), err, payload_pos, written].
\* payload_pos is the cursor at the payload's read_exact, -1 when the
\* function left before it; written is what it wrote, in order.
\* File::open, File::create and write_all are taken to succeed: failures of
\* the file system itself are outside the model.
extract_file(f, entry, overflow_checks) ==
    LET Out(r, pp, w) == [payload_pos |-> pp, written |-> w] @@ r
        local_header == ReadExact(f, entry.file_offset, LOCAL_HEADER_LEN)
        h == local_header.bytes
        local_name_length  == from_le_bytes(SubSeq(h, 27, 28))
        local_extra_length == from_le_bytes(SubSeq(h, 29, 30))
        skip == SkipLength(local_name_length, local_extra_length, overflow_checks)
        pp   == entry.file_offset + LOCAL_HEADER_LEN + skip.n
        compressed_data_buf == ReadExact(f, pp, entry.compressed_size)
        decoded == Inflate(compressed_data_buf.bytes)
    IN  IF ~local_header.ok THEN Out(Err("UnexpectedEof", <<>>), -1, <<>>)
        ELSE IF SubSeq(h, 1, 4) # to_le_bytes(LOCAL_FILE_HEADER_SIGNATURE, 4)
             THEN Out(Ok_None(<<>>), -1, <<>>)
        ELSE IF skip.panic THEN Out(Panic(<<>>), -1, <<>>)
        ELSE IF ~compressed_data_buf.ok
             THEN Out(Err("UnexpectedEof", <<>>), pp, <<>>)
        ELSE IF entry.compression_method = 0
             THEN Out(Ok_Some(compressed_data_buf.bytes), pp, <<>>)
        ELSE IF entry.compression_method = 8
             THEN IF decoded.ok
                  THEN Out(Ok_Some(decoded.bytes), pp,
                           << [path |-> OutputPath, bytes |-> decoded.bytes] >>)
                  ELSE Out(Err("InvalidData", <<>>), pp, <<>>)
        ELSE Out(Ok_None(<<>>), pp, <<>>)

---------------------------------------------------------------------------
(* The input family: archives assembled in the three record layouts the     *)
(* source reads, and short raw byte strings.                                *)

\* What one stored file looks like in an archive: the central directory's
\* fields (name, method, csize, usize), the payload bytes really present
\* (data), the signature written in its local header (lsig) and the length
\* of the local header's extra field (lextra).
Member(name, method, data, csize, usize, lsig, lextra) ==
    [name |-> name, method |-> method, data |-> data, csize |-> csize,
     usize |-> usize, lsig |-> lsig, lextra |-> lextra]

Members ==
    { Member(<<97>>, 0, <<104, 105>>, 2, 2, LOCAL_FILE_HEADER_SIGNATURE, 0),
      Member(<<99>>, 0, <<>>, 0, 0, LOCAL_FILE_HEADER_SIGNATURE, 0),
      Member(<<98>>, 8, <<1, 1, 0, 254, 255, 119>>, 6, 1,
             LOCAL_FILE_HEADER_SIGNATURE, 0),
      Member(<<100>>, 8, <<7, 0>>, 2, 1, LOCAL_FILE_HEADER_SIGNATURE, 0),
      Member(<<101>>, 99, <<120>>, 1, 1, LOCAL_FILE_HEADER_SIGNATURE, 0),
      Member(<<102>>, 0, <<104, 105>>, 2, 2, 0, 0),
      Member(<<103>>, 0, <<104, 105>>, 2, 2, LOCAL_FILE_HEADER_SIGNATURE, 65535),
      Member(<<104>>, 0, <<104, 105>>, 16777216, 2, LOCAL_FILE_HEADER_SIGNATURE, 0),
      Member(<<255>>, 0, <<104, 105>>, 2, 2, LOCAL_FILE_HEADER_SIGNATURE, 0) }

\* Local File Header (30 bytes) and the name; the extra field and the
\* payload follow it in the file.
LocalHeader(m) ==
    to_le_bytes(m.lsig, 4) \o Zeros(4) \o to_le_bytes(m.method, 2)
    \o Zeros(8) \o to_le_bytes(m.csize, 4) \o to_le_bytes(m.usize, 4)
    \o to_le_bytes(Len(m.name), 2) \o to_le_bytes(m.lextra, 2) \o m.name

\* Central Directory Header (46 bytes) and the name; no extra, no comment.
CentralHeader(m, local_header_offset) ==
    to_le_bytes(CENTRAL_DIR_SIGNATURE, 4) \o Zeros(6)
    \o to_le_bytes(m.method, 2) \o Zeros(8)
    \o to_le_bytes(m.csize, 4) \o to_le_bytes(m.usize, 4)
    \o to_le_bytes(Len(m.name), 2) \o Zeros(4) \o Zeros(8)
    \o to_le_bytes(local_header_offset, 4) \o m.name

\* End of Central Directory Record (22 bytes) and the comment.
EndRecord(n, dir_size, dir_offset, comment) ==
    to_le_bytes(END_CENTRAL_DIR_SIGNATURE, 4) \o Zeros(4)
    \o to_le_bytes(n, 2) \o to_le_bytes(n, 2)
    \o to_le_bytes(dir_size, 4) \o to_le_bytes(dir_offset, 4)
    \o to_le_bytes(Len(comment), 2) \o comment

\* The members' local parts appended to f one after another, and the
\* central directory that describes where each one went.
RECURSIVE AddMembers(_, _, _)
AddMembers(f, cd, ms) ==
    IF ms = <<>> THEN [f |-> f, cd |-> cd]
    ELSE LET m == Head(ms)
         IN  AddMembers(
                 AppendBytes(AppendHole(AppendBytes(f, LocalHeader(m)), m.lextra),
                             m.data),
                 cd \o CentralHeader(m, f.len),
                 Tail(ms))

\* An archive description a: prefix bytes of zeros, the members, the first
\* keep bytes of the central directory (-1: all of it), the end record with
\* its comment, and cut bytes removed from the end.
Offsets(a) ==
    LET r == AddMembers(AppendHole(EmptyFile, a.prefix), <<>>, a.members)
    IN  [dir_offset |-> r.f.len,
         local |-> [i \in 1..Len(a.members) |->
                      AddMembers(AppendHole(EmptyFile, a.prefix), <<>>,
                                 SubSeq(a.members, 1, i - 1)).f.len]]

ZipFile(a) ==
    LET r    == AddMembers(AppendHole(EmptyFile, a.prefix), <<>>, a.members)
        kept == IF a.keep = -1 THEN r.cd ELSE SubSeq(r.cd, 1, Min(a.keep, Len(r.cd)))
        tail == kept \o EndRecord(Len(a.members), Len(r.cd), r.f.len, a.comment)
    IN  Truncate(AppendBytes(r.f, tail), a.cut)

FileOf(a) == IF a.kind = "zip" THEN ZipFile(a) ELSE AppendBytes(EmptyFile, a.raw)

RECURSIVE SeqsUpTo(_, _)
SeqsUpTo(S, n) ==
    IF n = 0 THEN {<<>>}
    ELSE LET shorter == SeqsUpTo(S, n - 1)
         IN  shorter \cup {Append(s, x) : s \in {t \in shorter : Len(t) = n - 1}, x \in S}

SignatureBytes == to_le_bytes(END_CENTRAL_DIR_SIGNATURE, 4)

\* The plain layout, and the layouts that differ from it in one respect:
\* leading bytes that push the file past the search window, a central
\* directory cut short, a comment holding the signature bytes, a cut tail.
Plain == [prefix |-> 0, keep |-> -1, comment |-> <<>>, cut |-> 0]

Layouts ==
    {Plain}
    \cup {[Plain EXCEPT !.prefix = SEARCH_WINDOW + 1]}
    \cup {[Plain EXCEPT !.keep = k] : k \in {2, 10, 46}}
    \cup {[Plain EXCEPT !.comment = c] :
             c \in {SignatureBytes, SignatureBytes \o <<0>>,
                    SignatureBytes \o Zeros(18),
                    SignatureBytes \o Zeros(18) \o SignatureBytes}}
    \cup {[Plain EXCEPT !.cut = c] : c \in {1, 18, 22}}

Zips ==
    {[kind |-> "zip", members |-> ms, raw |-> <<>>] @@ l :
        ms \in SeqsUpTo(Members, MaxEntries), l \in Layouts}

RawBytes == {b \in 0..255 : \E k \in 1..4 : SignatureBytes[k] = b}

Raws ==
    {[kind |-> "raw", members |-> <<>>, raw |-> bs] @@ Plain :
        bs \in SeqsUpTo(RawBytes, MaxRawLen)}

---------------------------------------------------------------------------
(* main *)

NotRun == [tag |-> "NotRun", val |-> <<>>, err |-> ""]

Init ==
    /\ archive \in Zips \cup Raws
    /\ pc = "main_38"
    /\ res = [tag |-> "NotRun", val |-> 0, err |-> ""]
    /\ signature_position = -1
    /\ entries = NotRun
    /\ handed = <<>>
    /\ extracted = NotRun
    /\ payload_pos = -1
    /\ sink = <<>>

\* let res = read_end_central_dir(path);
CallReadEndCentralDir ==
    /\ pc = "main_38"
    /\ LET r == read_end_central_dir(FileOf(archive))
       IN  /\ res' = [tag |-> r.tag, val |-> r.val, err |-> r.err]
           /\ signature_position' = r.pos
           /\ pc' = IF r.tag = "Panic" THEN "panic" ELSE "main_40"
    /\ UNCHANGED <<archive, entries, handed, extracted, payload_pos, sink>>

\* let entries = read_central_directory(path, res.unwrap()).unwrap();
\* and the entries.unwrap() that opens the next line.
CallReadCentralDirectory ==
    /\ pc = "main_40"
    /\ IF res.tag = "Err"
       THEN /\ pc' = "panic"                     \* res.unwrap()
            /\ UNCHANGED entries
       ELSE LET r == read_central_directory(FileOf(archive), res)
            IN  /\ entries' = r
                /\ pc' = IF r.tag = "Some" THEN "main_41" ELSE "panic"
    /\ UNCHANGED <<archive, res, signature_position, handed, extracted,
                   payload_pos, sink>>

\* if let Some(entry) = entries.get(0) { extract_file(path, entry); }
CallExtractFile ==
    /\ pc = "main_41"
    /\ IF Len(entries.val) = 0
       THEN /\ pc' = "done"
            /\ UNCHANGED <<handed, extracted, payload_pos, sink>>
       ELSE \E overflow_checks \in BOOLEAN :
              LET entry == entries.val[1]
                  r == extract_file(FileOf(archive), entry, overflow_checks)
              IN  /\ handed' = Append(handed, entry)
                  /\ extracted' = [tag |-> r.tag, val |-> r.val, err |-> r.err]
                  /\ payload_pos' = r.payload_pos
                  /\ sink' = sink \o r.written
                  /\ pc' = IF r.tag = "Panic" THEN "panic" ELSE "done"
    /\ UNCHANGED <<archive, res, signature_position, entries>>

Next ==
    \/ CallReadEndCentralDir
    \/ CallReadCentralDirectory
    \/ CallExtractFile

Spec == Init /\ [][Next]_vars

---------------------------------------------------------------------------
(* What the claims speak of, read off the input and not off the code. *)

TheFile == FileOf(archive)

\* The trailing min(1024, size) bytes of the file.
TrailingWindow ==
    LET f == TheFile
        n == Min(1024, f.len)
    IN  Slice(f.pieces, f.len - n, n)

\* The offsets of the window at which the four signature bytes occur.
Occurrences ==
    LET w == TrailingWindow
    IN  {i \in 0 .. Len(w) - 4 :
            w[i + 1] = 80 /\ w[i + 2] = 75 /\ w[i + 3] = 5 /\ w[i + 4] = 6}

LocateReturned == pc # "main_38"
WalkReturned == entries.tag # "NotRun"
ExtractReturned == Len(handed) = 1

\* A member whose local part is as its central directory header says.
Extractable(m) ==
    /\ m.lsig = LOCAL_FILE_HEADER_SIGNATURE
    /\ m.csize = Len(m.data)
    /\ Len(m.name) + m.lextra <= 65535
    /\ \/ m.method = 0
       \/ m.method = 8 /\ Inflate(m.data).ok

\* An archive whose central directory and end record are whole and found.
DirectoryIntact ==
    /\ archive.kind = "zip"
    /\ archive.keep = -1 /\ archive.cut = 0 /\ archive.comment = <<>>
    /\ \A i \in 1..Len(archive.members) : Utf8Valid(archive.members[i].name)

\* The entries of the central directory, in its order.
DirectoryEntries ==
    [i \in 1..Len(archive.members) |->
        LET m == archive.members[i]
        IN  ZipFileEntry(m.name, m.csize, m.usize, m.method,
                         Offsets(archive).local[i])]

\* The entries a result carries: none for Ok(None).
EntriesOf(r) == IF r.tag = "Some" THEN r.val ELSE <<>>

\* The outcome of member i: main calls extract_file once, on the first.
Outcome(i) == IF i = 1 /\ ExtractReturned THEN extracted ELSE NotRun

\* The local header of the entry handed to extract_file, as the file has it.
HandedHeader == ReadExact(TheFile, handed[1].file_offset, 30)
HandedHeaderValid ==
    /\ HandedHeader.ok
    /\ SubSeq(HandedHeader.bytes, 1, 4) = <<80, 75, 3, 4>>
TruePayloadPos ==
    handed[1].file_offset + 30
    + (HandedHeader.bytes[27] + 256 * HandedHeader.bytes[28])
    + (HandedHeader.bytes[29] + 256 * HandedHeader.bytes[30])

---------------------------------------------------------------------------
(* The claims. *)

\* C1: for a well-formed, untruncated archive of n entries, the walk from
\* the offset the end record reports returns exactly the n entries of the
\* central directory, in its order.
C1_WalkReturnsEveryEntry ==
    (WalkReturned /\ DirectoryIntact)
        => /\ entries.tag \in {"Some", "None"}
           /\ EntriesOf(entries) = DirectoryEntries

\* C2: in a run that ends, every entry of the central directory has been
\* handed to the extractor, whatever happened to the entries before it.
C2_EveryEntryHandedToExtractor ==
    (pc = "done" /\ DirectoryIntact) => handed = DirectoryEntries

\* C3: the scan selects the highest offset of the window at which the
\* signature bytes occur, the offset 4 bytes before the window's end
\* included (and none when they occur nowhere).
C3_ScanSelectsLastOccurrence ==
    LocateReturned =>
        /\ Occurrences = {} => signature_position = -1
        /\ Occurrences # {} =>
              /\ signature_position \in Occurrences
              /\ \A i \in Occurrences : i <= signature_position

\* C3, amended: the scan selects the highest offset at which the signature
\* bytes occur among the offsets it visits, 0 .. len - 5; an occurrence
\* that starts 4 bytes before the window's end is not visited.
C3_ScanSelectsLastCandidate ==
    LocateReturned =>
        LET last    == Len(TrailingWindow) - 5
            visited == {i \in Occurrences : i <= last}
        IN  /\ visited = {} => signature_position = -1
            /\ visited # {} =>
                  /\ signature_position \in visited
                  /\ \A i \in visited : i <= signature_position

\* C3 witness: the signature bytes occur 4 bytes before the window's end and
\* at lower offsets too, and the scan has selected the highest of the lower.
C3_Witness ==
    /\ LocateReturned
    /\ (Len(TrailingWindow) - 4) \in Occurrences
    /\ Cardinality(Occurrences) >= 3
    /\ signature_position \in Occurrences
    /\ \E i \in Occurrences : i < signature_position

\* C4: when the header at the walk's position has no central-directory
\* signature, or the input ends inside it, the walk returns successfully
\* with the entries parsed before it and raises no error.  Stated for the
\* first header of the walk, before which no entry has been parsed.
C4_WalkToleratesTruncation ==
    (WalkReturned /\ res.tag = "Some") =>
        LET o   == res.val
            sig == ReadExact(TheFile, o, 4)
            fix == ReadExact(TheFile, o, 46)
            cut == \/ ~sig.ok
                   \/ sig.bytes # <<80, 75, 1, 2>>
                   \/ ~fix.ok
                   \/ o + 46 + fix.bytes[29] + 256 * fix.bytes[30] > TheFile.len
        IN  cut => entries.tag \in {"Some", "None"} /\ EntriesOf(entries) = <<>>

\* C5: in a run that ends, every entry with a valid local header and a
\* method other than 0 and 8 was returned as Skipped with nothing written
\* for it, and every sibling with a supported method was extracted.
C5_UnsupportedSkippedSiblingsExtracted ==
    (pc = "done" /\ DirectoryIntact) =>
        \A i \in 1..Len(archive.members) :
            LET m == archive.members[i]
            IN  (m.lsig = LOCAL_FILE_HEADER_SIGNATURE /\ m.method \notin {0, 8})
                => /\ Outcome(i).tag = "None"
                   /\ sink = <<>>
                   /\ \A j \in 1..Len(archive.members) :
                         Extractable(archive.members[j])
                             => /\ Outcome(j).tag = "Some"
                                /\ Outcome(j).val =
                                     IF archive.members[j].method = 0
                                     THEN archive.members[j].data
                                     ELSE Inflate(archive.members[j].data).bytes

\* C6: a store entry with a valid local header and compressed_size bytes
\* behind it yields exactly those bytes, in order.
C6_StoreReturnsPayload ==
    (ExtractReturned /\ handed[1].compression_method = 0 /\ HandedHeaderValid
       /\ TruePayloadPos + handed[1].compressed_size <= TheFile.len)
        => /\ extracted.tag = "Some"
           /\ extracted.val =
                Slice(TheFile.pieces, TruePayloadPos, handed[1].compressed_size)

\* C7: when the signature bytes occur nowhere in the trailing window, of a
\* file of any size, read_end_central_dir returns Ok(None): no error, no
\* panic.
C7_AbsenceIsOkNone ==
    (LocateReturned /\ Occurrences = {})
        => res = Ok_None(0) /\ signature_position = -1

\* C7 witness: the locator has returned on a file of 1 to 3 bytes.
C7_Witness ==
    /\ LocateReturned /\ Occurrences = {}
    /\ TheFile.len \in 1..3
    /\ res.tag = "None"

\* C8: past a valid local header the payload is read at file_offset + 30 +
\* name_length + extra_length, the sum taken in the integers.
C8_PayloadAtTrueOffset ==
    (ExtractReturned /\ HandedHeaderValid)
        => extracted.tag # "Panic" /\ payload_pos = TruePayloadPos

\* C9: a successful decode, store or deflate, writes the output once at the
\* destination root joined with the entry's name; any other outcome writes
\* nothing.  The root is taken to be the directory the code writes into.
C9_SinkWrittenOncePerDecode ==
    ExtractReturned =>
        IF extracted.tag = "Some"
        THEN sink = << [path  |-> SubSeq(OutputPath, 1, 17) \o <<47>>
                                       \o handed[1].filename,
                        bytes |-> extracted.val] >>
        ELSE sink = <<>>

\* C10: a signature position the scan accepts has its whole 22-byte record
\* inside the window, so parsing it stays inside the buffer.
C10_AcceptedRecordInsideWindow ==
    (LocateReturned /\ signature_position # -1)
        => /\ signature_position + 22 <= Len(TrailingWindow)
           /\ res.tag # "Panic"

=============================================================================
